---- MODULE Spec2Model ----
(***************************************************************************)
(* WheelOdometryDemo (src/wheel_odometry_demo.py): the wheel-odometry /    *)
(* EKF localisation simulator, as a state machine.                         *)
(*                                                                         *)
(* Number representation (the source computes in IEEE doubles; the model   *)
(* computes in integers, one fixed unit per quantity):                     *)
(*   lengths, positions, ranges        millimetres                         *)
(*   times                             milliseconds                        *)
(*   headings, bearings                eighths of a turn (pi = HALF)       *)
(*   linear velocity                   mm/s                                *)
(*   angular velocity                  heading units per second            *)
(*   noise standard deviations         mm/s, mrad/s, mm, mrad              *)
(*   covariances P, Q, R, S            1e-4 SI  (cm^2, cm*crad, crad^2)    *)
(*   Jacobians F, H and the gain K     thousandths                         *)
(* Every quotient rounds to the nearest integer.                           *)
(***************************************************************************)
EXTENDS Integers, Sequences, FiniteSets, TLC

VARIABLES
    demo,       \* the WheelOdometryDemo object: one field per attribute
    raised,     \* the exception the last handler call ended with, or "none"
    lastOp,     \* the handler that ran last (history variable)
    pc,         \* position of every thread (GUI thread and animation threads)
    twin,       \* a second simulator started from a fresh reset (history variable)
    run         \* what happened since the last reset (history variable)

vars == <<demo, raised, lastOp, pc, twin, run>>

-----------------------------------------------------------------------------
(* Arithmetic helpers                                                      *)

Abs(a) == IF a < 0 THEN -a ELSE a

Sgn(a) == IF a < 0 THEN -1 ELSE IF a > 0 THEN 1 ELSE 0

\* a / b rounded to the nearest integer (b > 0), halves away from zero
Rnd(a, b) == Sgn(a) * ((2 * Abs(a) + b) \div (2 * b))

\* a * b / c rounded, without forming a * b (c > 0, |b| * c within range)
MulDiv(a, b, c) ==
    LET q == Abs(a) \div c
        r == Abs(a) % c
    IN  Sgn(a) * Sgn(b) * (q * Abs(b) + Rnd(r * Abs(b), c))

RECURSIVE SqrtIter(_, _, _)
SqrtIter(v, lo, hi) ==
    IF lo >= hi THEN lo
    ELSE LET mid == (lo + hi + 1) \div 2
         IN  IF mid * mid <= v THEN SqrtIter(v, mid, hi)
                               ELSE SqrtIter(v, lo, mid - 1)

\* np.sqrt on a non-negative integer: the nearest integer to the root
Sqrt(v) ==
    LET f == SqrtIter(v, 0, 46340)
    IN  IF v - f * f > f THEN f + 1 ELSE f

\* the sequence f with every element computed (a tuple, not a rule)
Array(f) == f \o <<>>

RECURSIVE SumSeq(_)
SumSeq(s) == IF s = <<>> THEN 0 ELSE Head(s) + SumSeq(Tail(s))

-----------------------------------------------------------------------------
(* Angles: np.pi, np.cos, np.sin, np.arctan2 on the eighth-turn grid       *)

HALF == 4          \* np.pi
FULL == 2 * HALF   \* 2 * np.pi
MRAD_PER_UNIT == 785   \* one heading unit (pi/4) in milliradians
DEG_PER_UNIT == 45     \* one heading unit in degrees (np.degrees)

\* 1000 * cos(a * pi/4)
Cos(a) ==
    LET m == a % FULL
    IN  CASE m = 0 -> 1000
          [] m = 1 -> 707
          [] m = 2 -> 0
          [] m = 3 -> -707
          [] m = 4 -> -1000
          [] m = 5 -> -707
          [] m = 6 -> 0
          [] OTHER -> 707

\* 1000 * sin(a * pi/4)
Sin(a) == Cos(a - 2)

\* np.arctan2(dy, dx): the grid direction nearest to (dx, dy), in (-HALF, HALF]
Arctan2(dy, dx) ==
    IF dx = 0 /\ dy = 0 THEN 0
    ELSE LET proj(a) == dx * Cos(a) + dy * Sin(a)
             dirs == (1 - HALF) .. HALF
         IN  CHOOSE a \in dirs :
                 \A b \in dirs : proj(a) > proj(b) \/ (proj(a) = proj(b) /\ a >= b)

\* the heading left as computed
NormalizeAngle_unwrapped(a) == a

\* np.arctan2(np.sin(a), np.cos(a)): the representative of a in (-HALF, HALF]
NormalizeAngle(a) == ((a + HALF - 1) % FULL) - (HALF - 1)

-----------------------------------------------------------------------------
(* 3x3 and 2x2 matrices as tuples of rows                                  *)

Diag3(a, b, c) == << <<a, 0, 0>>, <<0, b, 0>>, <<0, 0, c>> >>

Diag2(a, b) == << <<a, 0>>, <<0, b>> >>

\* sigma^2 of a standard deviation given in milli-units, in covariance units
Square(sigma) == Rnd(sigma * sigma, 100)

-----------------------------------------------------------------------------
(* setup_simulation, generate_landmarks, generate_rectangle_trajectory     *)

DT == 100                  \* self.dt = 0.1 s
InitialTotalTime == 50000  \* self.total_time = 50.0 s
InitialLandmarkCount == 5  \* self.landmark_count = 5
InitialLinearNoise == 100          \* linear_noise_std = 0.1 m/s
InitialAngularNoise == 50          \* angular_noise_std = 0.05 rad/s
InitialLandmarkNoise == 100        \* landmark_noise_std = 0.1 m
InitialLandmarkAngleNoise == 20    \* landmark_angle_noise_std = 0.02 rad

\* np.arange(0, stop, step) with the stop value included
Arange_inclusive(stop, step) ==
    IF stop < 0 THEN <<>>
    ELSE Array([k \in 1 .. (stop \div step) + 1 |-> (k - 1) * step])

\* np.arange(0, stop, step)
Arange(stop, step) ==
    IF stop <= 0 THEN <<>>
    ELSE Array([k \in 1 .. ((stop + step - 1) \div step) |-> (k - 1) * step])

\* the positions generate_landmarks appends, in the order of its tests
LandmarkCatalog ==
    << <<2000, 2000>>, <<8000, 2000>>, <<8000, 6000>>, <<2000, 6000>>,
       <<5000, 4000>>, <<1000, 1000>>, <<9000, 1000>>, <<9000, 7000>>,
       <<1000, 7000>>, <<3000, 3000>>, <<7000, 3000>>, <<7000, 5000>>,
       <<3000, 5000>> >>

RECURSIVE AppendLandmarks(_, _, _)
\* the chain of "if self.landmark_count >= k: landmarks.append(...)" from test k on
AppendLandmarks(landmark_count, k, landmarks) ==
    IF k > Len(LandmarkCatalog) THEN landmarks
    ELSE AppendLandmarks(landmark_count, k + 1,
                         IF landmark_count >= k
                         THEN Append(landmarks, LandmarkCatalog[k])
                         ELSE landmarks)

\* generate_landmarks with "self.landmark_count > k" for each ">= k"
generate_landmarks_strict(landmark_count) ==
    AppendLandmarks(landmark_count - 1, 1, <<>>)

generate_landmarks(landmark_count) == AppendLandmarks(landmark_count, 1, <<>>)

width == 10000     \* width = 10 m
height == 8000     \* height = 8 m
velocity == 500    \* velocity = 0.5 m/s

segment_times ==
    << (width * 1000) \div velocity, (height * 1000) \div velocity,
       (width * 1000) \div velocity, (height * 1000) \div velocity >>

total_segment_time == SumSeq(segment_times)

\* the pose of the segment i that holds segment_time (the inner for loop)
RECURSIVE SegmentPose(_, _, _)
SegmentPose(segment_time, i, cumulative_time) ==
    LET seg_time == segment_times[i]
        local_time == segment_time - cumulative_time
    IN  IF segment_time < cumulative_time + seg_time
        THEN CASE i = 1 -> << MulDiv(local_time, width, seg_time), 0, 0 >>
               [] i = 2 -> << width, MulDiv(local_time, height, seg_time), HALF \div 2 >>
               [] i = 3 -> << width - MulDiv(local_time, width, seg_time), height, HALF >>
               [] OTHER -> << 0, height - MulDiv(local_time, height, seg_time),
                              -(HALF \div 2) >>
        ELSE SegmentPose(segment_time, i + 1, cumulative_time + seg_time)

\* generate_rectangle_trajectory without "t % total_segment_time": after one
\* traversal no segment holds t, and the pose stays at the end of the left edge
generate_rectangle_trajectory_unwrapped(times) ==
    Array([k \in 1 .. Len(times) |->
              SegmentPose(IF times[k] < total_segment_time THEN times[k]
                          ELSE total_segment_time - 1, 1, 0)])

generate_rectangle_trajectory(times) ==
    Array([k \in 1 .. Len(times) |-> SegmentPose(times[k] % total_segment_time, 1, 0)])

-----------------------------------------------------------------------------
(* initialize_ekf, update_measurement_noise, initialize_trajectories       *)

update_measurement_noise(s) ==
    [s EXCEPT !.R = Diag2(Square(s.landmark_noise_std) * 2,
                          Square(s.landmark_angle_noise_std) * 2)]

ProcessNoise(s) ==
    Diag3(Square(s.linear_noise_std), Square(s.linear_noise_std),
          Square(s.angular_noise_std))

\* initialize_ekf without "self.P = np.diag([0.1, 0.1, 0.01])"
initialize_ekf_keeps_covariance(s) ==
    update_measurement_noise(
        [s EXCEPT !.x = <<0, 0, 0>>,
                  !.Q = ProcessNoise(s),
                  !.ekf_trajectory = <<>>])

\* initialize_ekf without "self.x = np.array([0.0, 0.0, 0.0])"
initialize_ekf_keeps_mean(s) ==
    update_measurement_noise(
        [s EXCEPT !.P = Diag3(1000, 1000, 100),
                  !.Q = ProcessNoise(s),
                  !.ekf_trajectory = <<>>])

initialize_ekf(s) ==
    update_measurement_noise(
        [s EXCEPT !.x = <<0, 0, 0>>,
                  !.P = Diag3(1000, 1000, 100),
                  !.Q = ProcessNoise(s),
                  !.ekf_trajectory = <<>>])

\* initialize_trajectories raises IndexError at estimated_trajectory[0] = ...
\* when the trajectory is empty
TrajectoryIsEmpty(s) == Len(s.times) = 0

\* np.zeros_like(self.true_trajectory)
ZerosLike(true_trajectory) ==
    Array([k \in 1 .. Len(true_trajectory) |-> <<0, 0, 0>>])

\* lines 157-161: the two arrays, before the assignment to element 0
AllocateTrajectories(s) ==
    [s EXCEPT !.true_trajectory = generate_rectangle_trajectory(s.times),
              !.estimated_trajectory =
                  ZerosLike(generate_rectangle_trajectory(s.times))]

\* lines 163-166
SetInitialPose(s) ==
    [s EXCEPT !.estimated_trajectory[1] = s.true_trajectory[1],
              !.ekf_trajectory = <<>>]

\* lines 172-181
ClearHistories(s) ==
    [s EXCEPT !.linear_velocities = <<>>,
              !.angular_velocities = <<>>,
              !.true_linear_velocities = <<>>,
              !.true_angular_velocities = <<>>,
              !.position_errors = <<>>,
              !.orientation_errors = <<>>,
              !.ekf_position_errors = <<>>,
              !.ekf_orientation_errors = <<>>]

initialize_trajectories(s) ==
    IF TrajectoryIsEmpty(s) THEN AllocateTrajectories(s)
    ELSE ClearHistories(initialize_ekf(SetInitialPose(AllocateTrajectories(s))))

\* __init__ with setup_simulation: the object after construction
Construct ==
    LET fields ==
            [total_time |-> InitialTotalTime,
             landmark_count |-> InitialLandmarkCount,
             times |-> Arange(InitialTotalTime, DT),
             linear_noise_std |-> InitialLinearNoise,
             angular_noise_std |-> InitialAngularNoise,
             landmark_noise_std |-> InitialLandmarkNoise,
             landmark_angle_noise_std |-> InitialLandmarkAngleNoise,
             landmarks |-> generate_landmarks(InitialLandmarkCount),
             current_step |-> 0,
             use_landmarks |-> TRUE,
             is_animating |-> FALSE,
             callback_set |-> FALSE,
             true_trajectory |-> <<>>, estimated_trajectory |-> <<>>,
             ekf_trajectory |-> <<>>,
             x |-> <<0, 0, 0>>, P |-> Diag3(0, 0, 0), Q |-> Diag3(0, 0, 0),
             R |-> Diag2(0, 0),
             linear_velocities |-> <<>>, angular_velocities |-> <<>>,
             true_linear_velocities |-> <<>>, true_angular_velocities |-> <<>>,
             position_errors |-> <<>>, orientation_errors |-> <<>>,
             ekf_position_errors |-> <<>>, ekf_orientation_errors |-> <<>>]
    IN  initialize_ekf(initialize_trajectories(fields))

-----------------------------------------------------------------------------
(* reset_simulation                                                        *)

\* lines 528-529
reset_begin(s) == [s EXCEPT !.current_step = 0, !.is_animating = FALSE]

\* lines 537-538
reset_regenerate(s) ==
    [s EXCEPT !.landmarks = generate_landmarks(s.landmark_count),
              !.times = Arange(s.total_time, DT)]

reset_simulation(s) == initialize_trajectories(reset_regenerate(reset_begin(s)))

\* reset_simulation ends with the IndexError of initialize_trajectories
reset_raises(s) == TrajectoryIsEmpty(reset_regenerate(reset_begin(s)))
-----------------------------------------------------------------------------
(* Fixed-point linear algebra: Jacobians and gains are in thousandths      *)

RECURSIVE DotIter(_, _, _, _, _)
DotIter(A, i, B, j, k) ==
    IF k = 0 THEN 0
    ELSE MulDiv(A[i][k], B[k][j], 1000) + DotIter(A, i, B, j, k - 1)

\* A @ B where one factor is in thousandths
MatMul(A, B) ==
    Array([i \in 1 .. Len(A) |->
              Array([j \in 1 .. Len(B[1]) |-> DotIter(A, i, B, j, Len(B))])])

\* A.T
Transpose(A) ==
    Array([j \in 1 .. Len(A[1]) |-> Array([i \in 1 .. Len(A) |-> A[i][j]])])

MatAdd(A, B) ==
    Array([i \in 1 .. Len(A) |-> Array([j \in 1 .. Len(A[1]) |-> A[i][j] + B[i][j]])])

MatSub(A, B) ==
    Array([i \in 1 .. Len(A) |-> Array([j \in 1 .. Len(A[1]) |-> A[i][j] - B[i][j]])])

\* np.eye(3), in thousandths
Eye3 == Diag3(1000, 1000, 1000)

Det2(S) == S[1][1] * S[2][2] - S[1][2] * S[2][1]

Det3(M) ==
    M[1][1] * (M[2][2] * M[3][3] - M[2][3] * M[3][2])
    - M[1][2] * (M[2][1] * M[3][3] - M[2][3] * M[3][1])
    + M[1][3] * (M[2][1] * M[3][2] - M[2][2] * M[3][1])

\* np.linalg.inv(S) of a 2x2 covariance, in hundredths of SI units
Inv2(S) ==
    LET d == Det2(S)
        e(a) == Sgn(d) * MulDiv(1000000, a, Abs(d))
    IN  << << e(S[2][2]), e(-S[1][2]) >>, << e(-S[2][1]), e(S[1][1]) >> >>

\* np.linalg.cond(S) < 1e12.  Each entry of S carries a rounding error of one
\* unit, so the determinant is known to differ from zero only when it exceeds
\* the sum of the entries: below that resolution S counts as ill-conditioned
WellConditioned(S) ==
    Abs(Det2(S)) > Abs(S[1][1]) + Abs(S[1][2]) + Abs(S[2][1]) + Abs(S[2][2])

\* every principal minor of the symmetric M is non-negative
IsPSD(M) ==
    /\ M[1][1] >= 0 /\ M[2][2] >= 0 /\ M[3][3] >= 0
    /\ M[1][1] * M[2][2] - M[1][2] * M[2][1] >= 0
    /\ M[1][1] * M[3][3] - M[1][3] * M[3][1] >= 0
    /\ M[2][2] * M[3][3] - M[2][3] * M[3][2] >= 0
    /\ Det3(M) >= 0

Shift(M, lambda) == MatSub(M, Diag3(lambda, lambda, lambda))

RECURSIVE MinEigIter(_, _, _)
MinEigIter(M, lo, hi) ==
    IF lo >= hi THEN lo
    ELSE LET mid == (lo + hi + 1) \div 2
         IN  IF IsPSD(Shift(M, mid)) THEN MinEigIter(M, mid, hi)
                                    ELSE MinEigIter(M, lo, mid - 1)

Min(a, b) == IF a < b THEN a ELSE b

\* np.min(np.real(np.linalg.eigvals(P))) of a symmetric P, rounded down:
\* the largest integer lambda with P - lambda * I positive semi-definite
MinEig(M) ==
    LET radius == Abs(M[1][2]) + Abs(M[1][3]) + Abs(M[2][3])
        least == Min(M[1][1], Min(M[2][2], M[3][3]))
    IN  MinEigIter(M, least - radius, least)

-----------------------------------------------------------------------------
(* add_sensor_noise, calculate_landmark_measurements, update_odometry      *)

\* linear_vel * dt * c for a cosine or sine c in thousandths: millimetres
Displacement(linear_vel, dt, c) == MulDiv(linear_vel * dt, c, 1000000)

\* angular_vel * dt: heading units
Turn(angular_vel, dt) == Rnd(angular_vel * dt, 1000)

\* noise is the pair of np.random.normal draws
add_sensor_noise(true_linear_vel, true_angular_vel, noise) ==
    << true_linear_vel + noise[1], true_angular_vel + noise[2] >>

\* noise[j] is the pair of draws made for landmark j
calculate_landmark_measurements(s, robot_pos, noise) ==
    Array([j \in 1 .. Len(s.landmarks) |->
        LET dx == s.landmarks[j][1] - robot_pos[1]
            dy == s.landmarks[j][2] - robot_pos[2]
            true_range == Sqrt(dx * dx + dy * dy)
            true_bearing == Arctan2(dy, dx) - robot_pos[3]
        IN  << true_range + noise[j][1], true_bearing + noise[j][2] >>])

\* update_odometry starting from the EKF mean instead of the previous
\* baseline pose
update_odometry_from_mean(s, linear_vel, angular_vel, dt) ==
    << s.x[1] + Displacement(linear_vel, dt, Cos(s.x[3])),
       s.x[2] + Displacement(linear_vel, dt, Sin(s.x[3])),
       s.x[3] + Turn(angular_vel, dt) >>

update_odometry(s, linear_vel, angular_vel, dt) ==
    LET prev == s.estimated_trajectory[s.current_step]
    IN  << prev[1] + Displacement(linear_vel, dt, Cos(prev[3])),
           prev[2] + Displacement(linear_vel, dt, Sin(prev[3])),
           prev[3] + Turn(angular_vel, dt) >>

-----------------------------------------------------------------------------
(* ekf_predict, ekf_update                                                 *)

\* ekf_predict moving along the new heading instead of the old one
ekf_predict_turns_first(s, linear_vel, angular_vel, dt) ==
    LET theta == NormalizeAngle(s.x[3] + Turn(angular_vel, dt))
        new_x == s.x[1] + Displacement(linear_vel, dt, Cos(theta))
        new_y == s.x[2] + Displacement(linear_vel, dt, Sin(theta))
        F == << <<1000, 0, -Displacement(linear_vel, dt, Sin(theta))>>,
                <<0, 1000, Displacement(linear_vel, dt, Cos(theta))>>,
                <<0, 0, 1000>> >>
        Q_scaled == Array([i \in 1 .. 3 |->
                        Array([j \in 1 .. 3 |-> MulDiv(s.Q[i][j], dt, 2000)])])
    IN  [s EXCEPT !.x = << new_x, new_y, theta >>,
                  !.P = MatAdd(MatMul(MatMul(F, s.P), Transpose(F)), Q_scaled)]

ekf_predict(s, linear_vel, angular_vel, dt) ==
    LET theta == s.x[3]
        new_x == s.x[1] + Displacement(linear_vel, dt, Cos(theta))
        new_y == s.x[2] + Displacement(linear_vel, dt, Sin(theta))
        new_theta == NormalizeAngle(theta + Turn(angular_vel, dt))
        F == << <<1000, 0, -Displacement(linear_vel, dt, Sin(theta))>>,
                <<0, 1000, Displacement(linear_vel, dt, Cos(theta))>>,
                <<0, 0, 1000>> >>
        Q_scaled == Array([i \in 1 .. 3 |->
                        Array([j \in 1 .. 3 |-> MulDiv(s.Q[i][j], dt, 2000)])])
    IN  [s EXCEPT !.x = << new_x, new_y, new_theta >>,
                  !.P = MatAdd(MatMul(MatMul(F, s.P), Transpose(F)), Q_scaled)]

\* line 791: (P + P.T) / 2
Symmetrised(P) ==
    Array([i \in 1 .. 3 |-> Array([j \in 1 .. 3 |-> Rnd(P[i][j] + P[j][i], 2)])])

\* lines 793-794: lift the least eigenvalue to the floor (1e-6 is below one
\* covariance unit: the floor is 0 here)
LiftBy(sym, min_eig) ==
    IF min_eig < 0 THEN MatAdd(sym, Diag3(-min_eig, -min_eig, -min_eig))
    ELSE sym

\* line 792: the least eigenvalue of the symmetrised matrix
Lifted(sym) == LiftBy(sym, MinEig(sym))

\* lines 787-788 without the repair of lines 791-794
RepairCovariance_skipped(P) == P

\* lines 791-794
RepairCovariance(P) == Lifted(Symmetrised(P))

\* lines 752-759: the predicted measurement of landmark i from the current mean
PredictedMeasurement(s, i) ==
    LET dx == s.landmarks[i][1] - s.x[1]
        dy == s.landmarks[i][2] - s.x[2]
    IN  [dx |-> dx, dy |-> dy,
         range |-> Sqrt(dx * dx + dy * dy),
         bearing |-> NormalizeAngle(Arctan2(dy, dx) - s.x[3])]

\* lines 763-766: the measurement Jacobian H, in thousandths
Jacobian(dx, dy, range) ==
    << << -MulDiv(dx, 1000, range), -MulDiv(dy, 1000, range), 0 >>,
       << MulDiv(MulDiv(dy, 1000, range), 1000, range),
          -MulDiv(MulDiv(dx, 1000, range), 1000, range), -1000 >> >>

\* line 769: S = H @ P @ H.T + R
InnovationCovariance(s, H) ==
    MatAdd(MatMul(MatMul(H, s.P), Transpose(H)), s.R)

\* lines 762 and 773: the landmark passes both tests (range above 0.1 m,
\* S well conditioned), so that lines 774-794 run
UpdateApplies(p, S) == p.range > 100 /\ WellConditioned(S)

\* line 775: K = P @ H.T @ inv(S), in thousandths
KalmanGain(s, H, S) == MatMul(MatMul(s.P, Transpose(H)), Inv2(S))

\* lines 778-781: range innovation in mm, wrapped bearing innovation in mrad
Innovation(measurement, p) ==
    << measurement[1] - p.range,
       NormalizeAngle(measurement[2] - p.bearing) * MRAD_PER_UNIT >>

\* K @ innovation
Correction(K, innovation) ==
    Array([r \in 1 .. 3 |-> MulDiv(K[r][1], innovation[1], 1000)
                            + MulDiv(K[r][2], innovation[2], 1000)])

\* lines 784-785
CorrectedMean(x, correction) ==
    << x[1] + correction[1], x[2] + correction[2],
       NormalizeAngle(x[3] + Rnd(correction[3], MRAD_PER_UNIT)) >>

\* lines 784-794
Corrected(s, K, H, correction) ==
    [s EXCEPT !.x = CorrectedMean(s.x, correction),
              !.P = RepairCovariance(MatMul(MatSub(Eye3, MatMul(K, H)), s.P))]

\* lines 775-794 with the gain K
WithGain(s, p, H, K, measurement) ==
    Corrected(s, K, H, Correction(K, Innovation(measurement, p)))

\* lines 773-794 with the innovation covariance S; H and S are only used
\* once the range test has passed
WithCovariance(s, p, H, S, measurement) ==
    IF UpdateApplies(p, S)
    THEN WithGain(s, p, H, KalmanGain(s, H, S), measurement)
    ELSE s

\* lines 769-794 with the Jacobian H
WithJacobian(s, p, H, measurement) ==
    WithCovariance(s, p, H, InnovationCovariance(s, H), measurement)

\* lines 762-794 with the predicted measurement p
WithPrediction(s, p, measurement) ==
    WithJacobian(s, p, Jacobian(p.dx, p.dy, p.range), measurement)

\* lines 749-794 for measurement i: one step of the loop
ApplyLandmark(s, i, measurement) ==
    WithPrediction(s, PredictedMeasurement(s, i), measurement)

RECURSIVE UpdateFrom_descending(_, _, _)
\* the loop of ekf_update taking the measurements from the last one down to
\* measurement i
UpdateFrom_descending(s, landmark_measurements, i) ==
    IF i > Len(landmark_measurements) \/ i > Len(s.landmarks) THEN s
    ELSE ApplyLandmark(UpdateFrom_descending(s, landmark_measurements, i + 1),
                       i, landmark_measurements[i])

RECURSIVE UpdateFrom_stops_at_skip(_, _, _)
\* the loop of ekf_update with "break" where a landmark is skipped
UpdateFrom_stops_at_skip(s, landmark_measurements, i) ==
    IF i > Len(landmark_measurements) \/ i > Len(s.landmarks) THEN s
    ELSE IF ApplyLandmark(s, i, landmark_measurements[i]) = s THEN s
    ELSE UpdateFrom_stops_at_skip(ApplyLandmark(s, i, landmark_measurements[i]),
                                  landmark_measurements, i + 1)

RECURSIVE UpdateFrom(_, _, _)
\* the for loop of ekf_update from measurement i on
UpdateFrom(s, landmark_measurements, i) ==
    IF i > Len(landmark_measurements) \/ i > Len(s.landmarks) THEN s
    ELSE UpdateFrom(ApplyLandmark(s, i, landmark_measurements[i]),
                    landmark_measurements, i + 1)

ekf_update(s, landmark_measurements) ==
    IF landmark_measurements = <<>> THEN s
    ELSE UpdateFrom(s, landmark_measurements, 1)

-----------------------------------------------------------------------------
(* run_single_step, step_simulation                                        *)

\* "if self.current_step >= len(self.times) - 1: return"
AtBoundary(s) == s.current_step >= Len(s.times) - 1

\* lines 598-607: the pair (true_linear_vel, true_angular_vel) between the
\* previous and the current true pose
TrueVelocities(true_pos, prev_pos) ==
    << MulDiv(Sqrt((true_pos[1] - prev_pos[1]) * (true_pos[1] - prev_pos[1])
                   + (true_pos[2] - prev_pos[2]) * (true_pos[2] - prev_pos[2])),
              1000, DT),
       MulDiv(true_pos[3] - prev_pos[3], 1000, DT) >>

\* lines 613-616
StoreVelocities(s, true_vel, measured) ==
    [s EXCEPT !.true_linear_velocities = Append(@, true_vel[1]),
              !.true_angular_velocities = Append(@, true_vel[2]),
              !.linear_velocities = Append(@, measured[1]),
              !.angular_velocities = Append(@, measured[2])]

\* lines 622-626; lm is the draws of calculate_landmark_measurements
UpdateIfEnabled(predicted, true_pos, lm) ==
    IF predicted.use_landmarks
    THEN ekf_update(predicted,
                    calculate_landmark_measurements(predicted, true_pos, lm))
    ELSE predicted

\* np.sqrt((a[0] - b[0])**2 + (a[1] - b[1])**2)
Distance(a, b) ==
    Sqrt((a[1] - b[1]) * (a[1] - b[1]) + (a[2] - b[2]) * (a[2] - b[2]))

\* abs(np.degrees(np.arctan2(np.sin(a - b), np.cos(a - b))))
HeadingError(a, b) == Abs(NormalizeAngle(a - b)) * DEG_PER_UNIT

\* lines 629, 634-657: the EKF mean, the baseline pose new and the four errors
Record(s, true_pos, new) ==
    [s EXCEPT !.ekf_trajectory = Append(@, s.x),
              !.estimated_trajectory[s.current_step + 1] = new,
              !.position_errors = Append(@, Distance(true_pos, new)),
              !.orientation_errors = Append(@, HeadingError(true_pos[3], new[3])),
              !.ekf_position_errors = Append(@, Distance(true_pos, s.x)),
              !.ekf_orientation_errors =
                  Append(@, HeadingError(true_pos[3], s.x[3]))]

\* lines 629-657 after the EKF has run
AfterEkf(s, true_pos, measured) ==
    Record(s, true_pos, update_odometry(s, measured[1], measured[2], DT))

\* lines 613-657 with the measured velocities
WithMeasured(s, true_pos, true_vel, measured, lm) ==
    AfterEkf(UpdateIfEnabled(ekf_predict(StoreVelocities(s, true_vel, measured),
                                         measured[1], measured[2], DT),
                             true_pos, lm),
             true_pos, measured)

\* lines 610-657 with the true velocities
WithTrueVelocities(s, true_pos, true_vel, noise) ==
    WithMeasured(s, true_pos, true_vel,
                 add_sensor_noise(true_vel[1], true_vel[2], noise.vel), noise.lm)

\* lines 598-657 with the current true pose
WithTruePose(s, true_pos, noise) ==
    WithTrueVelocities(s, true_pos,
                       TrueVelocities(true_pos, s.true_trajectory[s.current_step]),
                       noise)

\* lines 598-657, taken when current_step > 0.  noise.vel is the pair of draws
\* of add_sensor_noise, noise.lm the draws of calculate_landmark_measurements
StepRecords(s, noise) ==
    WithTruePose(s, s.true_trajectory[s.current_step + 1], noise)

\* lines 596-657 with "self.position_errors = [position_error]" for the append
step_body_overwrites(s, noise) ==
    IF s.current_step > 0
    THEN [StepRecords(s, noise) EXCEPT !.position_errors = << @[Len(@)] >>]
    ELSE s

\* lines 596-657
step_body(s, noise) == IF s.current_step > 0 THEN StepRecords(s, noise) ELSE s

\* line 659
step_advance(s) == [s EXCEPT !.current_step = @ + 1]

run_single_step(s, noise) ==
    IF AtBoundary(s) THEN s ELSE step_advance(step_body(s, noise))

\* step_simulation stepping without the test of the step index
step_simulation_unguarded(s, noise) == step_advance(step_body(s, noise))

step_simulation(s, noise) ==
    IF s.current_step < Len(s.times) - 1 THEN run_single_step(s, noise) ELSE s

-----------------------------------------------------------------------------
(* The other handlers                                                      *)

toggle_landmarks(s, use_landmarks) == [s EXCEPT !.use_landmarks = use_landmarks]

on_linear_noise_change(s, val) ==
    update_measurement_noise([s EXCEPT !.linear_noise_std = val])

on_total_time_change(s, val) == reset_simulation([s EXCEPT !.total_time = val])

on_landmark_count_change(s, val) == reset_simulation([s EXCEPT !.landmark_count = val])

\* lines 802-806, before the reset
SetParameters(s, total_time, linear_noise) ==
    LET t == [s EXCEPT !.total_time = total_time, !.linear_noise_std = linear_noise]
    IN  [t EXCEPT !.Q = ProcessNoise(t)]

update_parameters(s, total_time, linear_noise) ==
    reset_simulation(SetParameters(s, total_time, linear_noise))

\* line 517; the call of start_simulation at line 521 finds is_animating set
\* already (line 668) and does nothing
toggle_play(s) == [s EXCEPT !.is_animating = ~@]

\* callback_set: plot_update_callback is not None
set_plot_update_callback(s) == [s EXCEPT !.callback_set = TRUE]

-----------------------------------------------------------------------------
(* Inputs: configuration values and random draws                          *)

MaxSamples == 4            \* longest trajectory of the short runs, in samples

\* total_time values passed to on_total_time_change / update_parameters
TotalTimes == {MaxSamples * DT}

\* landmark_count values passed to on_landmark_count_change
LandmarkCounts == {1, 2}

\* values of the linear-noise slider
LinearNoises == {0, InitialLinearNoise}

\* the values a draw of np.random.normal takes when sigma > 0
LinearDraws == {0, 100}        \* mm/s
AngularDraws == {-30, 0, 50}   \* heading units per second
RangeDraws == {0, 200}         \* mm
BearingDraws == {0, 1}         \* heading units

\* np.random.normal(0, sigma): 0 when sigma is 0, else one of the draws
Normal(sigma, draws) == IF sigma = 0 THEN {0} ELSE draws

NoLandmarkNoise(s) == Array([j \in 1 .. Len(s.landmarks) |-> <<0, 0>>])

\* the draws of one step: at most one of them is non-zero (the velocity, the
\* range of the first landmark or the bearing of the last)
NoiseDraws(s) ==
    LET quiet == NoLandmarkNoise(s)
    IN  {[vel |-> <<l, 0>>, lm |-> quiet] :
            l \in Normal(s.linear_noise_std, LinearDraws)}
        \cup {[vel |-> <<0, a>>, lm |-> quiet] :
            a \in Normal(s.angular_noise_std, AngularDraws)}
        \cup (IF s.use_landmarks /\ Len(s.landmarks) > 0
              THEN {[vel |-> <<0, 0>>, lm |-> [quiet EXCEPT ![1] = <<r, 0>>]] :
                        r \in Normal(s.landmark_noise_std, RangeDraws)}
                   \cup {[vel |-> <<0, 0>>,
                          lm |-> [quiet EXCEPT ![Len(s.landmarks)] = <<0, b>>]] :
                        b \in Normal(s.landmark_angle_noise_std, BearingDraws)}
              ELSE {})

-----------------------------------------------------------------------------
(* History variables                                                       *)

\* a second object, constructed afresh, given the configuration of s and reset
Fresh(s) ==
    reset_simulation(
        [Construct EXCEPT !.total_time = s.total_time,
                          !.landmark_count = s.landmark_count,
                          !.linear_noise_std = s.linear_noise_std,
                          !.angular_noise_std = s.angular_noise_std,
                          !.landmark_noise_std = s.landmark_noise_std,
                          !.landmark_angle_noise_std = s.landmark_angle_noise_std,
                          !.use_landmarks = s.use_landmarks])

\* what happened since the last completed reset:
\*   updated         a step ran ekf_update (landmarks enabled)
\*   predicted_only  a step ran without ekf_update (landmarks disabled)
\*   retuned         a noise parameter was changed
\*   interrupted     the threads whose step was in flight when a reset began
\*   torn            a step wrote to the object during a reset, or after a
\*                   reset that began while the step was in flight
NoRun == [updated |-> FALSE, predicted_only |-> FALSE, retuned |-> FALSE,
          interrupted |-> {}, torn |-> FALSE]

\* the names lastOp gives a reset: "reset_run" when it dropped error records
ResetOps == {"reset", "reset_run"}

Threads == {"gui", "anim1", "anim2"}

\* a handler of the GUI thread ran from start to end: op is its name, after
\* the object it leaves, err the exception it ended with
Handled(op, after, err) ==
    /\ demo' = after
    /\ raised' = err
    /\ lastOp' = op
    /\ UNCHANGED <<pc, twin>>

\* a handler that ends with reset_simulation
HandledReset(before) ==
    /\ Handled(IF demo.position_errors = <<>> THEN "reset" ELSE "reset_run",
               reset_simulation(before),
               IF reset_raises(before) THEN "IndexError" ELSE "none")
    /\ run' = IF reset_raises(before) THEN run ELSE NoRun

-----------------------------------------------------------------------------
(* Spec: the handlers called one after the other from the GUI thread       *)

\* the object after construction and the first setting of the two sliders
Configured(total_time, landmark_count) ==
    on_landmark_count_change(on_total_time_change(Construct, total_time), landmark_count)

InitOthers ==
    /\ raised = "none"
    /\ lastOp = "init"
    /\ pc = [t \in Threads |-> IF t = "gui" THEN "idle" ELSE "unborn"]
    /\ twin = Fresh(demo)
    /\ run = NoRun

Init ==
    /\ \E total_time \in TotalTimes, landmark_count \in LandmarkCounts :
            demo = Configured(total_time, landmark_count)
    /\ InitOthers

StepSimulation ==
    \E noise \in NoiseDraws(demo) :
        /\ Handled(IF AtBoundary(demo) THEN "step_boundary" ELSE "step",
                   step_simulation(demo, noise), "none")
        /\ run' = IF AtBoundary(demo) \/ demo.current_step = 0 THEN run
                  ELSE IF demo.use_landmarks THEN [run EXCEPT !.updated = TRUE]
                  ELSE [run EXCEPT !.predicted_only = TRUE]

ResetSimulation == HandledReset(demo)

ToggleLandmarks ==
    \E b \in BOOLEAN :
        /\ Handled("toggle_landmarks", toggle_landmarks(demo, b), "none")
        /\ UNCHANGED run

OnLinearNoiseChange ==
    \E val \in LinearNoises :
        /\ Handled("on_linear_noise_change", on_linear_noise_change(demo, val), "none")
        /\ run' = [run EXCEPT !.retuned = TRUE]

OnTotalTimeChange ==
    \E val \in TotalTimes :
        HandledReset([demo EXCEPT !.total_time = val])

OnLandmarkCountChange ==
    \E val \in LandmarkCounts :
        HandledReset([demo EXCEPT !.landmark_count = val])

UpdateParameters ==
    \E total_time \in TotalTimes, linear_noise \in LinearNoises :
        HandledReset(SetParameters(demo, total_time, linear_noise))

Next ==
    \/ StepSimulation
    \/ ResetSimulation
    \/ ToggleLandmarks
    \/ OnLinearNoiseChange
    \/ OnTotalTimeChange
    \/ OnLandmarkCountChange
    \/ UpdateParameters

Spec == Init /\ [][Next]_vars

-----------------------------------------------------------------------------
(* SpecThreads: the GUI thread and the animation threads, which share the  *)
(* object without a lock.  A thread runs the statements between two of its *)
(* positions in one piece:                                                 *)
(*   gui     idle, regenerate (after line 529), initialize (after 538),    *)
(*           body (after the tests of 566 and 593), advance (after 657)    *)
(*   anim    unborn, loop (at line 680), guard (at 593), body, advance,    *)
(*           callback (at 684), dead                                       *)

Anim == Threads \ {"gui"}

InStep == {"body", "advance"}

MidReset == pc["gui"] \in {"regenerate", "initialize"}

\* the draws of the threaded runs: every draw is the mean
ThreadDraws(s) == {d \in NoiseDraws(s) : d.vel = <<0, 0>> /\ d.lm = NoLandmarkNoise(s)}

\* thread t moves to position to; op names the statements it ran
Moved(t, to, op, err) ==
    /\ pc' = [pc EXCEPT ![t] = to]
    /\ raised' = err
    /\ lastOp' = op
    /\ UNCHANGED twin

\* where a thread is after run_single_step: the GUI thread back in the event
\* loop, an animation thread at the callback
AfterStep(t) == IF t = "gui" THEN "idle" ELSE "callback"

\* where a thread is after an exception left run_single_step
AfterRaise(t) == IF t = "gui" THEN "idle" ELSE "dead"

\* a write of thread t falls between the first and the last assignment of a
\* reset, or after a reset that began while the step of t was in flight
Tears(t) == MidReset \/ t \in run.interrupted

\* start_simulation, lines 668-672
StartSimulation ==
    /\ pc["gui"] = "idle"
    /\ ~demo.is_animating
    /\ \E t \in Anim :
        /\ pc[t] = "unborn"
        /\ t = (IF pc["anim1"] = "unborn" THEN "anim1" ELSE "anim2")
        /\ Moved(t, "loop", "start_simulation", "none")
    /\ demo' = [demo EXCEPT !.is_animating = TRUE]
    /\ UNCHANGED run

\* stop_simulation, line 676
StopSimulation ==
    /\ pc["gui"] = "idle"
    /\ demo.is_animating
    /\ demo' = [demo EXCEPT !.is_animating = FALSE]
    /\ raised' = "none"
    /\ lastOp' = "stop_simulation"
    /\ UNCHANGED <<pc, twin, run>>

\* toggle_play, the handler of the Play/Pause button: no thread is started
TogglePlay ==
    /\ pc["gui"] = "idle"
    /\ demo' = toggle_play(demo)
    /\ Moved("gui", "idle", "toggle_play", "none")
    /\ UNCHANGED run

\* reset_simulation, lines 528-529
ResetBegin ==
    /\ pc["gui"] = "idle"
    /\ demo' = reset_begin(demo)
    /\ Moved("gui", "regenerate", "reset_begin", "none")
    /\ run' = [run EXCEPT !.interrupted = {t \in Anim : pc[t] \in InStep}]

\* reset_simulation, lines 537-538
ResetRegenerate ==
    /\ pc["gui"] = "regenerate"
    /\ demo' = reset_regenerate(demo)
    /\ Moved("gui", "initialize", "reset_regenerate", "none")
    /\ UNCHANGED run

\* reset_simulation, line 539 to the end
ResetInitialize ==
    /\ pc["gui"] = "initialize"
    /\ demo' = initialize_trajectories(demo)
    /\ Moved("gui", "idle", "reset",
             IF TrajectoryIsEmpty(demo) THEN "IndexError" ELSE "none")
    /\ run' = [run EXCEPT !.updated = FALSE, !.predicted_only = FALSE,
                          !.retuned = FALSE]

\* step_simulation, line 566, and the test of run_single_step, line 593
GuiStep ==
    /\ pc["gui"] = "idle"
    /\ demo.current_step < Len(demo.times) - 1
    /\ ~AtBoundary(demo)
    /\ Moved("gui", "body", "step_simulation", "none")
    /\ UNCHANGED <<demo, run>>

\* the while test of animation_loop, line 680
AnimLoop(t) ==
    /\ pc[t] = "loop"
    /\ Moved(t, IF demo.is_animating /\ demo.current_step < Len(demo.times) - 1
                THEN "guard" ELSE "dead",
             "animation_loop", "none")
    /\ UNCHANGED <<demo, run>>

\* the test of run_single_step, line 593
AnimGuard(t) ==
    /\ pc[t] = "guard"
    /\ Moved(t, IF AtBoundary(demo) THEN "callback" ELSE "body",
             "run_single_step", "none")
    /\ UNCHANGED <<demo, run>>

\* the indices lines 598-634 use are within the arrays
BodyInBounds(s) ==
    s.current_step > 0 =>
        /\ s.current_step + 1 <= Len(s.true_trajectory)
        /\ s.current_step + 1 <= Len(s.estimated_trajectory)

\* run_single_step, lines 596-657
StepBody(t) ==
    /\ pc[t] = "body"
    /\ \E noise \in ThreadDraws(demo) :
        IF BodyInBounds(demo)
        THEN /\ demo' = step_body(demo, noise)
             /\ Moved(t, "advance", "step_body", "none")
        ELSE /\ demo' = demo
             /\ Moved(t, AfterRaise(t), "step_body", "IndexError")
    /\ run' = [run EXCEPT !.torn = @ \/ (Tears(t) /\ demo.current_step > 0),
                          !.updated = @ \/ (demo.current_step > 0 /\ demo.use_landmarks),
                          !.predicted_only = @ \/ (demo.current_step > 0 /\ ~demo.use_landmarks)]

\* run_single_step, lines 659-663: update_configuration_display reads
\* times[current_step]
StepAdvance(t) ==
    /\ pc[t] = "advance"
    /\ demo' = step_advance(demo)
    /\ IF demo'.current_step < Len(demo'.times)
       THEN Moved(t, AfterStep(t), "step", "none")
       ELSE Moved(t, AfterRaise(t), "step", "IndexError")
    /\ run' = [run EXCEPT !.torn = @ \/ Tears(t),
                          !.interrupted = @ \ {t}]

\* animation_loop, lines 684-685: the callback is called when one is set
AnimCallback(t) ==
    /\ pc[t] = "callback"
    /\ Moved(t, "loop",
             IF demo.callback_set THEN "plot_update_callback" ELSE "no_callback",
             "none")
    /\ UNCHANGED <<demo, run>>

\* set_plot_update_callback, called by the GUI wrapper after construction
SetPlotUpdateCallback ==
    /\ pc["gui"] = "idle"
    /\ ~demo.callback_set
    /\ demo' = set_plot_update_callback(demo)
    /\ Moved("gui", "idle", "set_plot_update_callback", "none")
    /\ UNCHANGED run

NextThreads ==
    \/ SetPlotUpdateCallback
    \/ StartSimulation
    \/ StopSimulation
    \/ TogglePlay
    \/ ResetBegin
    \/ ResetRegenerate
    \/ ResetInitialize
    \/ GuiStep
    \/ \E t \in Anim : AnimLoop(t)
    \/ \E t \in Anim : AnimGuard(t)
    \/ \E t \in Threads : StepBody(t)
    \/ \E t \in Threads : StepAdvance(t)
    \/ \E t \in Anim : AnimCallback(t)

\* the object after construction and the first setting of the two sliders,
\* with a single landmark
InitThreads ==
    /\ \E total_time \in TotalTimes : demo = Configured(total_time, 1)
    /\ InitOthers

SpecThreads == InitThreads /\ [][NextThreads]_vars

-----------------------------------------------------------------------------
(* SpecRun: the threads of SpecThreads in a run that is started and then   *)
(* neither paused nor reset; the Step button stays in use                  *)

NextRun ==
    \/ SetPlotUpdateCallback
    \/ StartSimulation
    \/ GuiStep
    \/ \E t \in Anim : AnimLoop(t)
    \/ \E t \in Anim : AnimGuard(t)
    \/ \E t \in Threads : StepBody(t)
    \/ \E t \in Threads : StepAdvance(t)
    \/ \E t \in Anim : AnimCallback(t)

SpecRun == InitThreads /\ [][NextRun]_vars

-----------------------------------------------------------------------------
(* SpecQuiet: long runs of an object whose four noise standard deviations  *)
(* are zero, stepped and reset from the GUI thread                         *)

QuietSamples == 760        \* samples of the quiet runs: once round the rectangle and on

QuietTimes == {QuietSamples * DT}

QuietCounts == {1, 13}

\* the object with the four standard deviations set to zero, then reset
Quiet(total_time, landmark_count) ==
    reset_simulation([Construct EXCEPT !.linear_noise_std = 0,
                                       !.angular_noise_std = 0,
                                       !.landmark_noise_std = 0,
                                       !.landmark_angle_noise_std = 0,
                                       !.total_time = total_time,
                                       !.landmark_count = landmark_count])

InitQuiet ==
    /\ \E total_time \in QuietTimes, landmark_count \in QuietCounts :
            demo = Quiet(total_time, landmark_count)
    /\ InitOthers

\* the steps and resets of Spec, and the two sliders moved within
\* QuietTimes and QuietCounts
NextQuiet ==
    \/ StepSimulation
    \/ ResetSimulation
    \/ \E val \in QuietTimes : HandledReset([demo EXCEPT !.total_time = val])
    \/ \E val \in QuietCounts : HandledReset([demo EXCEPT !.landmark_count = val])

SpecQuiet == InitQuiet /\ [][NextQuiet]_vars

-----------------------------------------------------------------------------
(* SpecTwin: the run of the object next to the run of a second object.  At  *)
(* every reset the second object is constructed afresh and given the        *)
(* configuration of the first; from then on both receive the same calls and *)
(* the same draws                                                           *)

TwinHandled(op, after, twin_after) ==
    /\ demo' = after
    /\ twin' = twin_after
    /\ raised' = "none"
    /\ lastOp' = op
    /\ UNCHANGED pc

TwinStep ==
    \E noise \in NoiseDraws(demo) :
        /\ TwinHandled(IF AtBoundary(demo) THEN "step_boundary" ELSE "step",
                       step_simulation(demo, noise), step_simulation(twin, noise))
        /\ run' = IF AtBoundary(demo) \/ demo.current_step = 0 THEN run
                  ELSE IF demo.use_landmarks THEN [run EXCEPT !.updated = TRUE]
                  ELSE [run EXCEPT !.predicted_only = TRUE]

TwinReset ==
    LET after == reset_simulation(demo)
    IN  /\ TwinHandled(IF demo.position_errors = <<>> THEN "reset" ELSE "reset_run",
                       after, Fresh(after))
        /\ run' = NoRun

\* steps and resets, and the landmark toggle and the linear-noise slider
\* applied to both objects
NextTwin ==
    \/ TwinStep
    \/ TwinReset
    \/ \E b \in BOOLEAN :
            /\ TwinHandled("toggle_landmarks", toggle_landmarks(demo, b),
                           toggle_landmarks(twin, b))
            /\ UNCHANGED run
    \/ \E val \in LinearNoises :
            /\ TwinHandled("on_linear_noise_change", on_linear_noise_change(demo, val),
                           on_linear_noise_change(twin, val))
            /\ run' = [run EXCEPT !.retuned = TRUE]

SpecTwin == Init /\ [][NextTwin]_vars

-----------------------------------------------------------------------------
(* SpecLandmarks: generate_landmarks applied to every count of the slider, *)
(* in short runs without noise in the draws                                *)

\* the values of the landmark-count slider
CatalogCounts == 1 .. Len(LandmarkCatalog)

InitLandmarks ==
    /\ \E total_time \in TotalTimes, landmark_count \in CatalogCounts :
            demo = Configured(total_time, landmark_count)
    /\ InitOthers

CatalogStep ==
    \E noise \in ThreadDraws(demo) :
        /\ Handled(IF AtBoundary(demo) THEN "step_boundary" ELSE "step",
                   step_simulation(demo, noise), "none")
        /\ run' = IF AtBoundary(demo) \/ demo.current_step = 0 THEN run
                  ELSE IF demo.use_landmarks THEN [run EXCEPT !.updated = TRUE]
                  ELSE [run EXCEPT !.predicted_only = TRUE]

\* the landmark-count slider moved within CatalogCounts, steps, resets and
\* the landmark toggle
NextLandmarks ==
    \/ \E val \in CatalogCounts : HandledReset([demo EXCEPT !.landmark_count = val])
    \/ CatalogStep
    \/ ResetSimulation
    \/ ToggleLandmarks

SpecLandmarks == InitLandmarks /\ [][NextLandmarks]_vars

-----------------------------------------------------------------------------
(* SpecTruth: generate_rectangle_trajectory applied to every total_time    *)
(* that is a multiple of dt, up to the time the bottom edge takes          *)

BottomSamples == 200       \* longest trajectory of these runs, in samples

\* the values of total_time: dt, 2 dt, ..., BottomSamples dt
TruthTimes == {n * DT : n \in 1 .. BottomSamples}

InitTruth ==
    /\ \E total_time \in TruthTimes :
            demo = on_total_time_change(Construct, total_time)
    /\ InitOthers

\* the total-time slider moved by one dt, and resets
NextTruth ==
    \/ \E val \in {demo.total_time - DT, demo.total_time + DT} \cap TruthTimes :
            HandledReset([demo EXCEPT !.total_time = val])
    \/ ResetSimulation

SpecTruth == InitTruth /\ [][NextTruth]_vars

-----------------------------------------------------------------------------
(* SpecConfig: the handlers called with values outside the ranges of the   *)
(* sliders as well as inside them                                          *)

\* total_time values: negative, zero and the one of the short runs
ConfigTimes == {-DT, 0, MaxSamples * DT}

\* landmark_count values: below the catalogue, in it and beyond it
ConfigCounts == {0, 1, Len(LandmarkCatalog) + 1}

NextConfig ==
    \/ StepSimulation
    \/ ResetSimulation
    \/ \E val \in ConfigTimes : HandledReset([demo EXCEPT !.total_time = val])
    \/ \E val \in ConfigCounts : HandledReset([demo EXCEPT !.landmark_count = val])
    \/ \E total_time \in ConfigTimes, linear_noise \in LinearNoises :
            HandledReset(SetParameters(demo, total_time, linear_noise))

SpecConfig == Init /\ [][NextConfig]_vars

-----------------------------------------------------------------------------
(* SpecUpdate: ekf_update called with measurement lists of every length,   *)
(* on objects whose mean is far from the landmarks, on one and next to one *)

MaxUpdates == 2            \* calls of ekf_update in one run

\* the lists of at most three measurements (range in mm, bearing in heading
\* units) taken from two values
MeasurementLists ==
    LET values == { <<2828, 1>>, <<8246, 0>> }
    IN  UNION {[1 .. n -> values] : n \in 0 .. 3}

\* an object after reset, with the standard landmark noise or without any,
\* and an EKF mean the draws can lead to: the start of the trajectory, the
\* position of the first landmark, a point 5 cm from it
InitUpdate ==
    /\ \E landmark_count \in LandmarkCounts,
          base \in {Configured(MaxSamples * DT, 1), Quiet(MaxSamples * DT, 1)},
          mean \in { <<0, 0, 0>>, <<2000, 2000, 0>>, <<2050, 2000, 1>> } :
            demo = [reset_simulation([base EXCEPT !.landmark_count = landmark_count])
                        EXCEPT !.x = mean]
    /\ InitOthers

\* lines 626-629: ekf_update with a measurement list, then the mean recorded
NextUpdate ==
    \E landmark_measurements \in MeasurementLists :
        /\ Len(demo.ekf_trajectory) < MaxUpdates
        /\ \E updated \in {ekf_update(demo, landmark_measurements)} :
                Handled("ekf_update",
                        [updated EXCEPT !.ekf_trajectory = Append(@, updated.x)],
                        "none")
        /\ UNCHANGED run

SpecUpdate == InitUpdate /\ [][NextUpdate]_vars

-----------------------------------------------------------------------------
(* Properties of Spec                                                      *)

\* a heading in (-pi, pi]
InRange(theta) == -HALF < theta /\ theta <= HALF

IsPrefix(a, b) == Len(a) <= Len(b) /\ SubSeq(b, 1, Len(a)) = a

\* C1: a step taken when current_step = len(times) - 1 changes no field of
\* the object (step index, trajectories, EKF mean and covariance, velocity and
\* error histories) and raises nothing.
C1_StepOverrunIsNoOp ==
    [][lastOp' = "step_boundary" => (demo' = demo /\ raised' = "none")]_vars

\* a step was taken at the last sample of a run that has records
C1_Witness ==
    /\ lastOp = "step_boundary"
    /\ demo.current_step = Len(demo.times) - 1
    /\ Len(demo.ekf_position_errors) > 0

\* C3: when reset_simulation has returned, the step index is 0, the EKF mean
\* is (0,0,0), the covariance is diag(0.1, 0.1, 0.01), the EKF trajectory and
\* the eight histories are empty, the baseline trajectory holds the initial
\* true pose at index 0 and zeros elsewhere, and the ground truth and the
\* landmarks are the ones generated from total_time and landmark_count.
C3_ResetEstablishesInitialState ==
    (lastOp \in ResetOps /\ raised = "none") =>
        /\ demo.current_step = 0
        /\ demo.x = <<0, 0, 0>>
        /\ demo.P = << <<1000, 0, 0>>, <<0, 1000, 0>>, <<0, 0, 100>> >>
        /\ demo.ekf_trajectory = <<>>
        /\ demo.linear_velocities = <<>> /\ demo.angular_velocities = <<>>
        /\ demo.true_linear_velocities = <<>> /\ demo.true_angular_velocities = <<>>
        /\ demo.position_errors = <<>> /\ demo.orientation_errors = <<>>
        /\ demo.ekf_position_errors = <<>> /\ demo.ekf_orientation_errors = <<>>
        /\ demo.times = Arange(demo.total_time, DT)
        /\ demo.true_trajectory = generate_rectangle_trajectory(demo.times)
        /\ Len(demo.estimated_trajectory) = Len(demo.times)
        /\ demo.estimated_trajectory[1] = demo.true_trajectory[1]
        /\ \A k \in 2 .. Len(demo.times) : demo.estimated_trajectory[k] = <<0, 0, 0>>
        /\ demo.landmarks = generate_landmarks(demo.landmark_count)

\* a reset has returned that dropped the records of a run
C3_Witness == lastOp = "reset_run" /\ raised = "none"

\* C4: every operation that is not a reset leaves each of the four error
\* histories a prefix of its new value.
C4_ErrorHistoriesOnlyGrow ==
    [][lastOp' \notin ResetOps =>
        /\ IsPrefix(demo.position_errors, demo'.position_errors)
        /\ IsPrefix(demo.orientation_errors, demo'.orientation_errors)
        /\ IsPrefix(demo.ekf_position_errors, demo'.ekf_position_errors)
        /\ IsPrefix(demo.ekf_orientation_errors, demo'.ekf_orientation_errors)]_vars

\* a step has appended to histories that already held a record
C4_Witness ==
    /\ lastOp = "step"
    /\ Len(demo.position_errors) >= 2
    /\ Len(demo.ekf_orientation_errors) >= 2

\* the longest trajectory whose ground truth is examined as a whole: the
\* rectangle is travelled twice within it
TruthSamples == 1500

\* every pose of the rectangle trajectory of TruthSamples samples has its
\* heading in (-pi, pi]
TruthHeadingsInRange ==
    LET truth == generate_rectangle_trajectory(Arange(TruthSamples * DT, DT))
    IN  \A k \in 1 .. Len(truth) : InRange(truth[k][3])

\* C5: in every reachable state the heading of the EKF mean and of every
\* recorded EKF pose lies in (-pi, pi], and so does the heading of every
\* ground-truth pose, of the current trajectory and of the long one.
C5_HeadingsAreWrapped ==
    /\ InRange(demo.x[3])
    /\ \A k \in 1 .. Len(demo.ekf_trajectory) : InRange(demo.ekf_trajectory[k][3])
    /\ \A k \in 1 .. Len(demo.true_trajectory) : InRange(demo.true_trajectory[k][3])
    /\ TruthHeadingsInRange

\* the sum of the measured turns has left (-pi, pi], so ekf_predict wrapped,
\* and a landmark update has been applied since
C5_Witness ==
    /\ lastOp = "step"
    /\ run.updated
    /\ ~InRange(SumSeq([k \in 1 .. Len(demo.angular_velocities) |->
                            Turn(demo.angular_velocities[k], DT)]))

\* C6: every pose stored in the baseline trajectory has its heading in
\* (-pi, pi].
C6_BaselineHeadingIsWrapped ==
    \A k \in 1 .. Len(demo.estimated_trajectory) :
        InRange(demo.estimated_trajectory[k][3])

\* C7: while no step since the reset has applied landmark updates, the EKF
\* mean after a step equals the baseline pose stored by that step.
C7_PredictOnlyEqualsBaseline ==
    (~run.updated /\ demo.current_step >= 1 /\ raised = "none") =>
        demo.x = demo.estimated_trajectory[demo.current_step]

\* total_time, landmark_count and the four noise standard deviations
Configuration(s) ==
    << s.total_time, s.landmark_count, s.linear_noise_std, s.angular_noise_std,
       s.landmark_noise_std, s.landmark_angle_noise_std >>

\* no velocity, no error and no EKF pose is recorded
HistoriesEmpty(s) ==
    /\ s.linear_velocities = <<>> /\ s.angular_velocities = <<>>
    /\ s.true_linear_velocities = <<>> /\ s.true_angular_velocities = <<>>
    /\ s.position_errors = <<>> /\ s.orientation_errors = <<>>
    /\ s.ekf_position_errors = <<>> /\ s.ekf_orientation_errors = <<>>
    /\ s.ekf_trajectory = <<>>

\* C13: a call that changes total_time, landmark_count or a noise standard
\* deviation ends with a full reset: right after it the step index is 0 and
\* every history is empty.
C13_ConfigurationChangeResets ==
    [][Configuration(demo') # Configuration(demo)
         => (demo'.current_step = 0 /\ HistoriesEmpty(demo'))]_vars

\* the EKF mean and covariance a step from s leaves when it predicts with the
\* draws noise and then does (with_update) or does not run ekf_update on the
\* measurements taken from the true pose
EkfAfter(s, noise, with_update) ==
    LET true_pos == s.true_trajectory[s.current_step + 1]
        true_vel == TrueVelocities(true_pos, s.true_trajectory[s.current_step])
        measured == add_sensor_noise(true_vel[1], true_vel[2], noise.vel)
        predicted == ekf_predict(s, measured[1], measured[2], DT)
        e == IF with_update
             THEN ekf_update(predicted,
                      calculate_landmark_measurements(predicted, true_pos, noise.lm))
             ELSE predicted
    IN  << e.x, e.P >>

\* the step from before to after ran ekf_predict and then ekf_update
LandmarkUpdateApplied(before, after) ==
    /\ before.current_step > 0
    /\ \E noise \in NoiseDraws(before) :
           << after.x, after.P >> = EkfAfter(before, noise, TRUE)

\* the step from before to after left the EKF as it was or as ekf_predict
\* alone leaves it
LandmarkUpdateSkipped(before, after) ==
    IF before.current_step > 0
    THEN \E noise \in NoiseDraws(before) :
            << after.x, after.P >> = EkfAfter(before, noise, FALSE)
    ELSE << after.x, after.P >> = << before.x, before.P >>

\* C14: toggle_landmarks changes the landmarks-enabled flag and nothing else
\* (step index, trajectories, EKF mean and covariance, histories), and every
\* step applies the landmark update if and only if the flag is true when the
\* step runs.
C14_ToggleOnlySetsFlag ==
    [][/\ lastOp' = "toggle_landmarks"
            => demo' = [demo EXCEPT !.use_landmarks = demo'.use_landmarks]
       /\ lastOp' = "step"
            => IF demo.use_landmarks THEN LandmarkUpdateApplied(demo, demo')
                                     ELSE LandmarkUpdateSkipped(demo, demo')]_vars

\* M equals its transpose
IsSymmetric(M) == \A i, j \in 1 .. 3 : M[i][j] = M[j][i]

Appended(a, b, r) == b = Append(a, r)

\* C18: every step that is not a boundary no-op, the first one after a reset
\* included, appends one EKF mean, one position error and one orientation
\* error of the baseline and of the EKF, each computed against the true pose
\* at the step index, and then adds exactly 1 to the step index.
C18_EveryStepRecords ==
    [][lastOp' = "step" =>
         /\ demo'.current_step = demo.current_step + 1
         /\ Appended(demo.ekf_trajectory, demo'.ekf_trajectory, demo'.x)
         /\ Appended(demo.position_errors, demo'.position_errors,
                     Distance(demo.true_trajectory[demo.current_step + 1],
                              demo'.estimated_trajectory[demo.current_step + 1]))
         /\ Appended(demo.orientation_errors, demo'.orientation_errors,
                     HeadingError(demo.true_trajectory[demo.current_step + 1][3],
                                  demo'.estimated_trajectory[demo.current_step + 1][3]))
         /\ Appended(demo.ekf_position_errors, demo'.ekf_position_errors,
                     Distance(demo.true_trajectory[demo.current_step + 1], demo'.x))
         /\ Appended(demo.ekf_orientation_errors, demo'.ekf_orientation_errors,
                     HeadingError(demo.true_trajectory[demo.current_step + 1][3],
                                  demo'.x[3]))]_vars

\* the object a step from s leaves when it runs, in this order: ekf_predict
\* with the measured velocities, one observation from the true pose at the
\* step index, ekf_update with that observation, the baseline integrator, the
\* records, the increment of the step index
OrderedStep(s, noise) ==
    LET true_pos == s.true_trajectory[s.current_step + 1]
        true_vel == TrueVelocities(true_pos, s.true_trajectory[s.current_step])
        measured == add_sensor_noise(true_vel[1], true_vel[2], noise.vel)
        predicted == ekf_predict(StoreVelocities(s, true_vel, measured),
                                 measured[1], measured[2], DT)
        observed == calculate_landmark_measurements(predicted, true_pos, noise.lm)
        updated == ekf_update(predicted, observed)
        new == update_odometry(updated, measured[1], measured[2], DT)
    IN  step_advance(Record(updated, true_pos, new))

\* C19: every step taken with landmarks enabled records an EKF pose, and the
\* object it leaves is the one that prediction, observation from the true
\* pose, landmark update, baseline integrator, error records and increment
\* produce in this order, for some draws of the noise; no step leaves the
\* landmark update out.
C19_StepOrder ==
    [][(lastOp' = "step" /\ demo.use_landmarks) =>
         /\ Len(demo'.ekf_trajectory) = Len(demo.ekf_trajectory) + 1
         /\ \E noise \in NoiseDraws(demo) : demo' = OrderedStep(demo, noise)]_vars

\* C20: whenever a step runs ekf_predict (step index above 0), the process
\* noise Q is diag(linear_noise_std^2, linear_noise_std^2, angular_noise_std^2)
\* for the standard deviations the object has at that moment.
C20_ProcessNoiseIsCurrent ==
    [][(lastOp' = "step" /\ demo.current_step > 0) => demo.Q = ProcessNoise(demo)]_vars

\* the pose reached from pose by the measured velocities over one dt
DeadReckoned(pose, linear_vel, angular_vel) ==
    << pose[1] + Displacement(linear_vel, DT, Cos(pose[3])),
       pose[2] + Displacement(linear_vel, DT, Sin(pose[3])),
       pose[3] + Turn(angular_vel, DT) >>

\* C24: the baseline trajectory is a function of the initial pose copied at
\* reset and of the recorded measured velocities alone: pose 0 is the first
\* true pose, pose k is the pose dead-reckoned from pose k - 1 with the k-th
\* measured velocity pair, and the poses no step has reached are zero.  The
\* EKF mean, the landmark measurements and the landmark switch do not enter,
\* and the pair is the one ekf_predict was given: without landmark update
\* the EKF mean after a step is ekf_predict of that pair.
C24_BaselineIsDeadReckoning ==
    [][/\ Len(demo'.linear_velocities) = Len(demo'.angular_velocities)
       /\ Len(demo'.linear_velocities) < Len(demo'.estimated_trajectory)
       /\ demo'.estimated_trajectory[1] = demo'.true_trajectory[1]
       /\ \A k \in 1 .. Len(demo'.estimated_trajectory) - 1 :
              demo'.estimated_trajectory[k + 1] =
                  IF k <= Len(demo'.linear_velocities)
                  THEN DeadReckoned(demo'.estimated_trajectory[k],
                                    demo'.linear_velocities[k],
                                    demo'.angular_velocities[k])
                  ELSE <<0, 0, 0>>
       /\ (lastOp' = "step" /\ demo.current_step > 0 /\ ~demo.use_landmarks) =>
              demo'.x = ekf_predict(demo,
                                    demo'.linear_velocities[Len(demo'.linear_velocities)],
                                    demo'.angular_velocities[Len(demo'.angular_velocities)],
                                    DT).x]_vars

\* two steps have recorded velocities with landmark updates applied, the last
\* velocity pair carries noise, and the EKF mean has left the baseline
C24_Witness ==
    /\ lastOp = "step"
    /\ run.updated
    /\ Len(demo.linear_velocities) >= 2
    /\ demo.linear_velocities[2] # demo.true_linear_velocities[2]
    /\ demo.x # demo.estimated_trajectory[demo.current_step]

-----------------------------------------------------------------------------
(* Properties of SpecThreads                                               *)

\* between the first and the last assignment of a reset, with the step index
\* already 0 and the error histories still the ones of the run, an animation
\* thread is about to run the body of a step or its callback
PartialResetVisible ==
    /\ MidReset
    /\ demo.current_step = 0
    /\ demo.position_errors # <<>>
    /\ \E t \in Anim : pc[t] \in {"body", "callback"}

\* C2: reset_simulation is atomic for the animation thread: no step or
\* callback runs on a partly reset object, and no step writes to the object
\* during a reset or after a reset that began while the step was in flight.
C2_ResetIsAtomic == ~PartialResetVisible /\ ~run.torn

\* C15: with a callback registered, the thread that completes a step goes on
\* to call the callback, whether it is an animation thread or the GUI thread
\* in step_simulation, and a thread whose run_single_step returned at the
\* boundary test does not.
C15_CallbackOncePerStep ==
    [][/\ (lastOp' = "step" /\ raised' = "none" /\ demo.callback_set)
            => \E t \in Threads : pc[t] = "advance" /\ pc'[t] = "callback"
       /\ (lastOp' = "run_single_step" /\ AtBoundary(demo) /\ demo.callback_set)
            => ~ \E t \in Threads : pc[t] = "guard" /\ pc'[t] = "callback"]_vars


\* C26: the Play/Pause button starts and stops the simulation: pressed while
\* the simulation is not animating and steps remain, it sets is_animating and
\* starts an animation thread (which then advances the step index); pressed
\* while it is animating, it clears is_animating.
C26_PlayButtonStartsAndStops ==
    [][lastOp' = "toggle_play" =>
          /\ (~demo.is_animating /\ ~AtBoundary(demo)
                                 /\ \E t \in Anim : pc[t] = "unborn") =>
                 /\ demo'.is_animating
                 /\ \E t \in Anim : pc[t] = "unborn" /\ pc'[t] = "loop"
          /\ demo.is_animating => ~demo'.is_animating]_vars

\* C27: in every reachable state, whatever the interleaving of the animation
\* threads with the steps and resets of the GUI thread, the step index is at
\* least 0 and at most len(times) - 1.
C27_StepIndexInRange ==
    /\ demo.current_step >= 0
    /\ demo.current_step <= Len(demo.times) - 1

\* thread t is executing animation_loop: started and not yet ended
InLoop(t) == pc[t] \in {"loop", "guard", "body", "advance", "callback"}

\* C28: at most one animation thread executes animation_loop at any time,
\* for every sequence of starts, stops and resets.
C28_OneAnimationThread ==
    \A t, u \in Anim : (InLoop(t) /\ InLoop(u)) => t = u

\* C29: after stop_simulation at most one step of the animation is in
\* flight (past the tests of lines 680 and 593, before the end of line 659),
\* so that the step index changes at most once more; and an animation thread
\* that comes to the while test while is_animating is cleared ends there.
C29_StopEndsTheAnimation ==
    [][/\ lastOp' = "stop_simulation" =>
              \A t, u \in Anim : (pc'[t] \in InStep /\ pc'[u] \in InStep) => t = u
       /\ \A t \in Anim :
              (pc[t] = "loop" /\ pc'[t] # "loop" /\ ~demo.is_animating) =>
                  pc'[t] = "dead"]_vars

-----------------------------------------------------------------------------
(* Properties of SpecRun                                                   *)

\* C25: in a run that is started and neither paused nor reset, every
\* iteration of the animation loop advances the step index by exactly 1 (no
\* iteration returns at the boundary test of run_single_step), and the loop
\* ends without an exception, with the step index at len(times) - 1.
C25_AnimationRunsToBoundary ==
    [][\A t \in Anim :
          /\ (pc[t] = "guard") => pc'[t] # "callback"
          /\ (pc[t] = "advance" /\ pc'[t] # "advance") =>
                 demo'.current_step = demo.current_step + 1
          /\ (pc[t] # "dead" /\ pc'[t] = "dead") =>
                 /\ raised' = "none"
                 /\ demo'.current_step = Len(demo'.times) - 1]_vars

-----------------------------------------------------------------------------
(* Properties of SpecQuiet                                                 *)

\* C8: with the four standard deviations zero and landmarks enabled, the EKF
\* mean after a step equals the ground-truth pose of that step, and every
\* recorded EKF position and orientation error is zero.
C8_QuietEkfFollowsTruth ==
    (demo.current_step >= 2 /\ raised = "none") =>
        /\ demo.x = demo.true_trajectory[demo.current_step]
        /\ \A k \in 1 .. Len(demo.ekf_position_errors) :
                demo.ekf_position_errors[k] = 0
        /\ \A k \in 1 .. Len(demo.ekf_orientation_errors) :
                demo.ekf_orientation_errors[k] = 0

\* a quiet run with landmark updates has gone once round the rectangle: it
\* is on the first side again, past the four corners
C8_Witness ==
    /\ lastOp = "step"
    /\ run.updated
    /\ demo.current_step * DT > total_segment_time
    /\ demo.x[1] > 0

\* C16: every bearing calculate_landmark_measurements returns lies in
\* (-pi, pi]: here the bearings, without noise, of the measurements the next
\* step takes from the true pose at the step index.
C16_BearingsAreWrapped ==
    (demo.use_landmarks /\ demo.current_step > 0 /\ ~AtBoundary(demo)) =>
        \A j \in 1 .. Len(demo.landmarks) :
            InRange(calculate_landmark_measurements(
                        demo, demo.true_trajectory[demo.current_step + 1],
                        NoLandmarkNoise(demo))[j][2])

\* the pose on the rectangle t ms after the start of a traversal: 20 s along
\* the bottom edge, 16 s up the right edge, 20 s back along the top edge and
\* 16 s down the left edge, at 0.5 m/s
EdgePose(t) ==
    CASE t < 20000 -> << t \div 2, 0, 0 >>
      [] t >= 20000 /\ t < 36000 -> << 10000, (t - 20000) \div 2, HALF \div 2 >>
      [] t >= 36000 /\ t < 56000 -> << 10000 - (t - 36000) \div 2, 8000, HALF >>
      [] OTHER -> << 0, 8000 - (t - 56000) \div 2, -(HALF \div 2) >>

\* C21: the ground truth has one pose per sample time; the pose at time t is
\* the pose at t modulo 72 s, and within a traversal it is the linearly
\* interpolated point of the bottom edge with heading 0 for t in [0, 20), of
\* the right edge with heading pi/2 for t in [20, 36), of the top edge with
\* heading pi for t in [36, 56) and of the left edge with heading -pi/2 for
\* t in [56, 72): a sample at a segment boundary has the pose of the segment
\* that follows.
C21_TruthFollowsRectangle ==
    /\ Len(demo.true_trajectory) = Len(demo.times)
    /\ \A k \in 1 .. Len(demo.times) :
            /\ demo.true_trajectory[k] = EdgePose(demo.times[k] % 72000)
            /\ demo.times[k] >= 72000 =>
                    demo.true_trajectory[k] = demo.true_trajectory[k - 72000 \div DT]

\* a trajectory longer than one traversal, after a reset: the samples at 20 s,
\* 36 s and 56 s are at the corners with the heading of the edge that follows,
\* and the sample at 72 s is at the origin with heading 0 again
C21_Witness ==
    /\ lastOp \in ResetOps
    /\ Len(demo.true_trajectory) >= 760
    /\ demo.true_trajectory[201] = << 10000, 0, HALF \div 2 >>
    /\ demo.true_trajectory[361] = << 10000, 8000, HALF >>
    /\ demo.true_trajectory[561] = << 0, 8000, -(HALF \div 2) >>
    /\ demo.true_trajectory[721] = << 0, 0, 0 >>
    /\ demo.true_trajectory[760] = << 1950, 0, 0 >>

-----------------------------------------------------------------------------
(* Properties of SpecTwin                                                  *)

\* what a run shows: the step index, the trajectories and the error histories
Observables(s) ==
    << s.current_step, s.true_trajectory, s.estimated_trajectory, s.ekf_trajectory,
       s.position_errors, s.orientation_errors,
       s.ekf_position_errors, s.ekf_orientation_errors >>

\* C9: the run of the object since its last reset and the run of a freshly
\* constructed object with the same configuration, the same landmark flag and
\* the same draws show the same step index, trajectories and error histories
\* after every step.
C9_RunsAreReproducible == Observables(demo) = Observables(twin)

\* the linear noise was set to zero, the object was reset after that (Q is
\* recomputed by a reset only) and has since taken two steps with landmark
\* updates
C9_Witness ==
    /\ lastOp = "step"
    /\ run.updated
    /\ demo.linear_noise_std = 0 /\ demo.Q[1][1] = 0
    /\ Len(demo.ekf_position_errors) >= 2

-----------------------------------------------------------------------------
(* Properties of SpecLandmarks                                             *)

\* C10: for a landmark count n of 1..13 the landmarks are exactly the first n
\* of (2,2), (8,2), (8,6), (2,6), (5,4), (1,1), (9,1), (9,7), (1,7), (3,3),
\* (7,3), (7,5), (3,5), in that order, and the landmarks of every smaller
\* count are a prefix of them.
C10_LandmarksAreCatalogPrefix ==
    LET metres == << <<2, 2>>, <<8, 2>>, <<8, 6>>, <<2, 6>>, <<5, 4>>, <<1, 1>>,
                     <<9, 1>>, <<9, 7>>, <<1, 7>>, <<3, 3>>, <<7, 3>>, <<7, 5>>,
                     <<3, 5>> >>
        n == demo.landmark_count
    IN  /\ n \in 1 .. 13
        /\ Len(demo.landmarks) = n
        /\ \A k \in 1 .. n :
                demo.landmarks[k] = << metres[k][1] * 1000, metres[k][2] * 1000 >>
        /\ \A m \in 1 .. n : IsPrefix(generate_landmarks(m), demo.landmarks)

\* the slider was moved to its largest count and the object reset
C10_Witness ==
    /\ lastOp \in ResetOps
    /\ demo.landmark_count = 13
    /\ Len(demo.landmarks) = 13
    /\ demo.landmarks[13] = <<3000, 5000>>

-----------------------------------------------------------------------------
(* Properties of SpecTruth                                                 *)

\* C11: with dt = 0.1 s and a total_time that is a multiple of dt and at most
\* the duration of the bottom edge (20 s), the ground truth has exactly
\* total_time / dt samples, and sample k (counted from 0) is the pose
\* (velocity * k * dt, 0, 0).
C11_BottomEdgeIsLinear ==
    (demo.total_time % DT = 0 /\ demo.total_time <= segment_times[1]) =>
        /\ Len(demo.true_trajectory) = demo.total_time \div DT
        /\ \A k \in 0 .. Len(demo.true_trajectory) - 1 :
               demo.true_trajectory[k + 1] = << (velocity * k * DT) \div 1000, 0, 0 >>

\* the longest run that stays on the bottom edge, after a change of total_time
C11_Witness ==
    /\ lastOp \in ResetOps
    /\ demo.total_time = segment_times[1]
    /\ Len(demo.true_trajectory) = 200
    /\ demo.true_trajectory[200] = <<9950, 0, 0>>

-----------------------------------------------------------------------------
(* Properties of SpecConfig                                                *)

\* total_time is positive and landmark_count is one of 1 .. 13
ValidConfiguration(s) ==
    s.total_time > 0 /\ s.landmark_count \in 1 .. Len(LandmarkCatalog)

\* the trajectory, the landmark set, the EKF state, the histories and the
\* step index of b are those of a
KeptSimulation(a, b) ==
    /\ b.true_trajectory = a.true_trajectory
    /\ b.estimated_trajectory = a.estimated_trajectory
    /\ b.landmarks = a.landmarks
    /\ b.x = a.x /\ b.P = a.P /\ b.ekf_trajectory = a.ekf_trajectory
    /\ b.linear_velocities = a.linear_velocities
    /\ b.angular_velocities = a.angular_velocities
    /\ b.position_errors = a.position_errors
    /\ b.orientation_errors = a.orientation_errors
    /\ b.ekf_position_errors = a.ekf_position_errors
    /\ b.ekf_orientation_errors = a.ekf_orientation_errors
    /\ b.current_step = a.current_step

\* C12: a call that sets, or resets with, a non-positive total_time or a
\* landmark_count outside 1 .. 13 ends with an error and leaves the
\* trajectory, the landmark set, the EKF state, the histories and the step
\* index as they were before the call.
C12_InvalidConfigurationIsRejected ==
    [][(lastOp' \in ResetOps /\ ~ValidConfiguration(demo'))
         => (raised' # "none" /\ KeptSimulation(demo, demo'))]_vars

------------------------------------------------------------------------\* the lengths of the nine histories: the four error histories, the EKF
\* trajectory and the four velocity histories
HistoryLengths(s) ==
    { Len(s.position_errors), Len(s.orientation_errors),
      Len(s.ekf_position_errors), Len(s.ekf_orientation_errors),
      Len(s.ekf_trajectory),
      Len(s.linear_velocities), Len(s.angular_velocities),
      Len(s.true_linear_velocities), Len(s.true_angular_velocities) }

\* C30: after every sequence of steps, resets, landmark toggles and parameter
\* changes made from one thread, the four error histories, the EKF
\* trajectory and the four velocity histories have one length, and it is
\* max(0, current_step - 1).
C30_HistoriesHaveOneLength ==
    HistoryLengths(demo) =
        { IF demo.current_step >= 1 THEN demo.current_step - 1 ELSE 0 }

-----
(* Properties of SpecUpdate                                                *)

\* the update of s with one measurement compared against one landmark
Against(s, landmark, measurement) ==
    [ApplyLandmark([s EXCEPT !.landmarks = <<landmark>>], 1, measurement)
        EXCEPT !.landmarks = s.landmarks]

\* fold step i: measurement i against landmark i, when both exist
FoldStep(s, z, i) ==
    IF i <= Len(z) /\ i <= Len(s.landmarks)
    THEN Against(s, s.landmarks[i], z[i])
    ELSE s

\* C22: for every measurement list, ekf_update is the fold over the
\* measurements in ascending index, measurement i against landmark i, each
\* step starting from the mean and covariance the step before left; a
\* measurement whose index is not below the number of landmarks changes
\* nothing and raises nothing.
C22_UpdateFoldsInOrder ==
    \A z \in MeasurementLists :
        ekf_update(demo, z) = FoldStep(FoldStep(FoldStep(demo, z, 1), z, 2), z, 3)

\* after a call of ekf_update, an object with two landmarks for which the
\* order matters: a list of three measurements whose first two, applied in
\* descending order, leave another mean or covariance
C22_Witness ==
    /\ lastOp = "ekf_update"
    /\ Len(demo.landmarks) = 2
    /\ demo.ekf_trajectory # <<>>
    /\ \E z \in MeasurementLists :
            /\ Len(z) = 3
            /\ ekf_update(demo, z) # demo
            /\ ekf_update(demo, z) # FoldStep(FoldStep(demo, z, 2), z, 1)

\* landmark i is closer to the mean of s than the singularity threshold of
\* 0.1 m
TooClose(s, i) == PredictedMeasurement(s, i).range < 100

\* landmark i is beyond the threshold and its innovation covariance S is
\* singular or ill-conditioned
IllConditioned(s, i) ==
    LET p == PredictedMeasurement(s, i)
    IN  /\ p.range > 100
        /\ ~WellConditioned(InnovationCovariance(s, Jacobian(p.dx, p.dy, p.range)))

\* C23: a landmark whose predicted range is below 0.1 m, or whose innovation
\* covariance is singular or ill-conditioned, is passed through: its fold
\* step leaves the mean and the covariance as they were, nothing is raised,
\* and the landmarks after it are still processed (with a first landmark
\* passed through, ekf_update is the update with the second).
C23_SkippedLandmarkPassesThrough ==
    \A z \in MeasurementLists :
        /\ \A i \in 1 .. Len(demo.landmarks) :
                (i <= Len(z) /\ (TooClose(demo, i) \/ IllConditioned(demo, i))) =>
                    /\ ApplyLandmark(demo, i, z[i]).x = demo.x
                    /\ ApplyLandmark(demo, i, z[i]).P = demo.P
        /\ (/\ Len(z) >= 2
            /\ Len(demo.landmarks) >= 2
            /\ TooClose(demo, 1) \/ IllConditioned(demo, 1)) =>
                ekf_update(demo, z) = ApplyLandmark(demo, 2, z[2])

\* after a call of ekf_update the mean is within 0.1 m of the first landmark,
\* and an update with the second landmark still moves it
C23_Witness ==
    /\ lastOp = "ekf_update"
    /\ Len(demo.landmarks) = 2
    /\ TooClose(demo, 1)
    /\ \E z \in MeasurementLists :
            Len(z) >= 2 /\ ekf_update(demo, z).x # demo.x

\* after a call of ekf_update without landmark noise the covariance has
\* collapsed: the innovation covariance of the first landmark is singular
C23_WitnessIllConditioned ==
    /\ lastOp = "ekf_update"
    /\ IllConditioned(demo, 1)

====
